---- MODULE Spec2Model ----
(***************************************************************************)
(* pysteroids lib/utils.py: 2D vectors, projections and the Shape class    *)
(* with its Separating-Axis collision test.                                *)
(*                                                                         *)
(* Numbers.  The model covers integer local vertices, integer positions,   *)
(* integer scales and rotations that are multiples of 90 degrees, so every *)
(* world vertex is an integer.  normalize() divides by sqrt(x^2 + y^2),    *)
(* which is irrational in general: a Vector is the record [x, y, d] that   *)
(* stands for (x / sqrt(d), y / sqrt(d)), and a scalar is [n, d], standing *)
(* for n / sqrt(d).  Comparisons of scalars are exact.  Rounding of Python *)
(* floats and of the GLfloat read-back is not modelled.                    *)
(***************************************************************************)
EXTENDS Integers, Sequences, FiniteSets, TLC

VARIABLES shapes, ctorVerts, gl, args, ret

vars == <<shapes, ctorVerts, gl, args, ret>>

-----------------------------------------------------------------------------
(* Bounds of the model                                                     *)

\* a mutation of pos assigns (x, 0) with x in 0..MaxMove
MaxMove == 2
\* constructor positions of the first shape: pos.x in 0..MaxX, pos.y in 0..MaxY
MaxX == 3
MaxY == 2
\* longest vertex list handed to project / generate_axes directly
MaxLen == 3

-----------------------------------------------------------------------------
(* Scalars n / sqrt(d)                                                     *)

Scalar(n, d) == [n |-> n, d |-> d]

\* p < q on n / sqrt(d) values, decided exactly by sign and squares
Lt(p, q) ==
    IF p.d = q.d THEN p.n < q.n
    ELSE IF p.n < 0 /\ q.n >= 0 THEN TRUE
    ELSE IF p.n >= 0 /\ q.n <= 0 THEN FALSE
    ELSE IF p.n >= 0 THEN p.n * p.n * q.d < q.n * q.n * p.d
    ELSE p.n * p.n * q.d > q.n * q.n * p.d

Gt(p, q) == Lt(q, p)

Leq(p, q) == ~Lt(q, p)

-----------------------------------------------------------------------------
(* class Vector                                                            *)

Vector(x, y) == [x |-> x, y |-> y, d |-> 1]

sub(a, b) == Vector(a.x - b.x, a.y - b.y)

\* the radicand of length(): length() is sqrt of this
length2(v) == v.x * v.x + v.y * v.y

normalize(v) ==
    IF length2(v) = 0 THEN v
    ELSE [x |-> v.x, y |-> v.y, d |-> length2(v)]

dot(a, b) == Scalar(a.x * b.x + a.y * b.y, a.d * b.d)

\* the column matrix [[x], [y], [0], [1]]
toMatrix(v) == <<v.x, v.y, 0, 1>>

-----------------------------------------------------------------------------
(* class Projection                                                        *)

Projection(minimum, maximum) == [minimum |-> minimum, maximum |-> maximum]

overlapsStrict(p, q) == Lt(p.minimum, q.maximum) /\ Lt(q.minimum, p.maximum)

overlaps(p, q) == Leq(p.minimum, q.maximum) /\ Leq(q.minimum, p.maximum)

-----------------------------------------------------------------------------
(* project(verts, axis)                                                    *)

NoProjection == Projection(Scalar(0, 1), Scalar(0, 1))

\* the for loop of project: i is the 1-based index of the next vertex
RECURSIVE project_loop(_, _, _, _, _)
project_loop(verts, axis, i, v_min, v_max) ==
    IF i > Len(verts) THEN Projection(v_min, v_max)
    ELSE LET p == dot(axis, verts[i]) IN
         IF Lt(p, v_min) THEN project_loop(verts, axis, i + 1, p, v_max)
         ELSE IF Gt(p, v_max) THEN project_loop(verts, axis, i + 1, v_min, p)
         ELSE project_loop(verts, axis, i + 1, v_min, v_max)

projectSkipsSecond(verts, axis) ==
    IF Len(verts) = 0 THEN [raised |-> TRUE, proj |-> NoProjection]
    ELSE [raised |-> FALSE,
          proj |-> project_loop(verts, axis, 3, dot(axis, verts[1]),
                                dot(axis, verts[1]))]

\* verts[0] raises IndexError on an empty list
project(verts, axis) ==
    IF Len(verts) = 0 THEN [raised |-> TRUE, proj |-> NoProjection]
    ELSE [raised |-> FALSE,
          proj |-> project_loop(verts, axis, 2, dot(axis, verts[1]),
                                dot(axis, verts[1]))]

-----------------------------------------------------------------------------
(* generate_axes(verts)                                                    *)

RECURSIVE generate_axes_loop(_, _, _)
generate_axes_loop(verts, i, axes) ==
    IF i > Len(verts) THEN axes
    ELSE LET p1 == verts[i]
             p2 == IF i = Len(verts) THEN verts[1] ELSE verts[i + 1]
             edge == sub(p1, p2)
             normal == normalize(Vector(edge.y, -edge.x))
         IN  generate_axes_loop(verts, i + 1, Append(axes, normal))

generate_axes_noWrap(verts) ==
    generate_axes_loop(SubSeq(verts, 1, Len(verts) - 1), 1, <<>>)

generate_axes(verts) == generate_axes_loop(verts, 1, <<>>)

-----------------------------------------------------------------------------
(* 4x4 matrices: a tuple of four rows                                      *)

Identity == << <<1, 0, 0, 0>>, <<0, 1, 0, 0>>, <<0, 0, 1, 0>>, <<0, 0, 0, 1>> >>

\* entry (i, j) of the product A * B
MatMulEntry(A, B, i, j) ==
    A[i][1] * B[1][j] + A[i][2] * B[2][j] + A[i][3] * B[3][j] + A[i][4] * B[4][j]

MatMulRow(A, B, i) ==
    <<MatMulEntry(A, B, i, 1), MatMulEntry(A, B, i, 2),
      MatMulEntry(A, B, i, 3), MatMulEntry(A, B, i, 4)>>

MatMul(A, B) ==
    <<MatMulRow(A, B, 1), MatMulRow(A, B, 2), MatMulRow(A, B, 3), MatMulRow(A, B, 4)>>

MatVecEntry(A, v, i) ==
    A[i][1] * v[1] + A[i][2] * v[2] + A[i][3] * v[3] + A[i][4] * v[4]

\* mv * v_m for the 4x1 column v_m
MatVec(A, v) ==
    <<MatVecEntry(A, v, 1), MatVecEntry(A, v, 2), MatVecEntry(A, v, 3), MatVecEntry(A, v, 4)>>

transposeKeepsRows(A) == A

transpose(A) ==
    << <<A[1][1], A[2][1], A[3][1], A[4][1]>>, <<A[1][2], A[2][2], A[3][2], A[4][2]>>,
       <<A[1][3], A[2][3], A[3][3], A[4][3]>>, <<A[1][4], A[2][4], A[3][4], A[4][4]>> >>

\* np.matrix(list(float_arr)) resized to 4x4: sixteen values laid out row by row
resize44(arr) ==
    << <<arr[1], arr[2], arr[3], arr[4]>>, <<arr[5], arr[6], arr[7], arr[8]>>,
       <<arr[9], arr[10], arr[11], arr[12]>>, <<arr[13], arr[14], arr[15], arr[16]>> >>

\* cos and sin of an angle in degrees, for whole quarter turns
Cos(deg) == CASE deg % 360 = 0 -> 1 [] deg % 360 = 90 -> 0
              [] deg % 360 = 180 -> -1 [] deg % 360 = 270 -> 0

Sin(deg) == CASE deg % 360 = 0 -> 0 [] deg % 360 = 90 -> 1
              [] deg % 360 = 180 -> 0 [] deg % 360 = 270 -> -1

-----------------------------------------------------------------------------
(* The OpenGL fixed-function matrix state the Shape methods call into: the *)
(* matrix mode names the matrix that glLoadIdentity, glTranslatef,         *)
(* glRotatef and glScalef act on.                                          *)

GL_MODELVIEW == "GL_MODELVIEW"
GL_PROJECTION == "GL_PROJECTION"

GLState(mode, modelview, projection) ==
    [mode |-> mode, modelview |-> modelview, projection |-> projection]

\* a context as created: mode GL_MODELVIEW, both matrices the identity
FreshGL == GLState(GL_MODELVIEW, Identity, Identity)

CurrentMatrix(g) == IF g.mode = GL_MODELVIEW THEN g.modelview ELSE g.projection

SetCurrentMatrix(g, M) ==
    IF g.mode = GL_MODELVIEW THEN [g EXCEPT !.modelview = M]
    ELSE [g EXCEPT !.projection = M]

glLoadIdentity(g) == SetCurrentMatrix(g, Identity)

glTranslatef(g, x, y, z) ==
    SetCurrentMatrix(g, MatMul(CurrentMatrix(g),
        << <<1, 0, 0, x>>, <<0, 1, 0, y>>, <<0, 0, 1, z>>, <<0, 0, 0, 1>> >>))

\* glRotatef(angle, 0, 0, 1): a rotation about the Z axis
glRotatefZ(g, angle) ==
    SetCurrentMatrix(g, MatMul(CurrentMatrix(g),
        << <<Cos(angle), -Sin(angle), 0, 0>>, <<Sin(angle), Cos(angle), 0, 0>>,
           <<0, 0, 1, 0>>, <<0, 0, 0, 1>> >>))

glScalef(g, x, y, z) ==
    SetCurrentMatrix(g, MatMul(CurrentMatrix(g),
        << <<x, 0, 0, 0>>, <<0, y, 0, 0>>, <<0, 0, z, 0>>, <<0, 0, 0, 1>> >>))

\* glGetFloatv(GL_MODELVIEW_MATRIX, float_arr): sixteen values, column by column
glGetFloatv_MODELVIEW(g) ==
    LET M == g.modelview
    IN  <<M[1][1], M[2][1], M[3][1], M[4][1], M[1][2], M[2][2], M[3][2], M[4][2],
          M[1][3], M[2][3], M[3][3], M[4][3], M[1][4], M[2][4], M[3][4], M[4][4]>>

-----------------------------------------------------------------------------
(* class Shape                                                             *)

RECURSIVE gen_indices_loop(_, _, _)
gen_indices_loop(num_verts, i, indices) ==
    IF i >= num_verts THEN indices
    ELSE IF i = 0 THEN gen_indices_loop(num_verts, i + 1, Append(indices, 0))
    ELSE IF i = num_verts - 1
         THEN gen_indices_loop(num_verts, i + 1, indices \o <<i, i, 0>>)
    ELSE gen_indices_loop(num_verts, i + 1, indices \o <<i, i>>)

gen_indices(num_verts) == gen_indices_loop(num_verts, 0, <<>>)

\* Shape.__init__
Shape(verts, pos, rot, scale) ==
    [verts |-> verts, num_verts |-> Len(verts) \div 2,
     indices |-> gen_indices(Len(verts) \div 2),
     pos |-> pos, rot |-> rot, scale |-> scale]

\* for i in range(0, len(indices), 2): Vector(verts[i], verts[i + 1])
RECURSIVE gen_vectors_loop(_, _, _)
gen_vectors_loop(s, i, vectors) ==
    IF i >= Len(s.indices) THEN vectors
    ELSE gen_vectors_loop(s, i + 2,
                          Append(vectors, Vector(s.verts[i + 1], s.verts[i + 2])))

gen_vectors(s) == gen_vectors_loop(s, 0, <<>>)

load_pose_noIdentity(g, s) ==
    glScalef(glRotatefZ(glTranslatef(g, s.pos.x, s.pos.y, 0), s.rot),
             s.scale, s.scale, s.scale)

load_pose_noScale(g, s) ==
    glRotatefZ(glTranslatef(glLoadIdentity(g), s.pos.x, s.pos.y, 0), s.rot)

\* glLoadIdentity; glTranslatef; glRotatef; glScalef, as __get_model_view and
\* draw both issue them: the GL state they leave behind
load_pose(g, s) ==
    glScalef(glRotatefZ(glTranslatef(glLoadIdentity(g), s.pos.x, s.pos.y, 0), s.rot),
             s.scale, s.scale, s.scale)

\* __get_model_view: the matrix it returns, and the GL state it leaves behind
get_model_view(g, s) ==
    LET g2 == load_pose(g, s)
    IN  [gl |-> g2, mv |-> transpose(resize44(glGetFloatv_MODELVIEW(g2)))]

\* the for loop of __get_transformed_verts
RECURSIVE transformed_verts_loop(_, _, _, _)
transformed_verts_loop(mv, verts, k, transVerts) ==
    IF k > Len(verts) THEN transVerts
    ELSE LET v_m == MatVec(mv, toMatrix(verts[k]))
         IN  transformed_verts_loop(mv, verts, k + 1,
                                    Append(transVerts, Vector(v_m[1], v_m[2])))

\* __get_transformed_verts: the world vertices, and the GL state left behind
get_transformed_verts(g, s) ==
    LET m == get_model_view(g, s)
    IN  [gl |-> m.gl,
         verts |-> transformed_verts_loop(m.mv, gen_vectors(s), 1, <<>>)]

\* one of the two for loops of collides over a list of axes; "fallthrough"
\* when the loop ends without returning
RECURSIVE axes_loop(_, _, _, _)
axes_loop(axes, i, verts1, verts2) ==
    IF i > Len(axes) THEN "fallthrough"
    ELSE LET proj1 == project(verts1, axes[i])
             proj2 == project(verts2, axes[i])
         IN  IF proj1.raised \/ proj2.raised THEN "IndexError"
             ELSE IF ~overlaps(proj1.proj, proj2.proj) THEN "False"
             ELSE axes_loop(axes, i + 1, verts1, verts2)

collides_outcome_firstLoopOnly(verts1, verts2) ==
    LET first == axes_loop(generate_axes(verts1), 1, verts1, verts2)
    IN  IF first # "fallthrough" THEN first ELSE "True"

\* the two loops of collides on the world vertices: "True", "False" or "IndexError"
collides_outcome(verts1, verts2) ==
    LET first == axes_loop(generate_axes(verts1), 1, verts1, verts2)
    IN  IF first # "fallthrough" THEN first
        ELSE LET second == axes_loop(generate_axes(verts2), 1, verts1, verts2)
             IN  IF second # "fallthrough" THEN second ELSE "True"

\* Shape.collides
collides(g, self, other) ==
    LET t1 == get_transformed_verts(g, self)
        t2 == get_transformed_verts(t1.gl, other)
    IN  [gl |-> t2.gl, verts1 |-> t1.verts, verts2 |-> t2.verts,
         outcome |-> collides_outcome(t1.verts, t2.verts)]

\* Shape.draw: the GL state it leaves behind (the draw_indexed call renders)
draw(g, s) == load_pose(g, s)

-----------------------------------------------------------------------------------------------------------------------------------------------------
(* Inputs of the model                                                     *)

ShapeIds == {1, 2}

\* the unit square, a right triangle and a diamond, as flattened vertex tuples
Square == <<0, 0, 1, 0, 1, 1, 0, 1>>
Triangle == <<0, 0, 2, 0, 0, 2>>
Diamond == <<1, 0, 0, 1, -1, 0, 0, -1>>
Polygons == {Square, Triangle}

\* vertex tuples of fewer than three vertices
Degenerate == {<<>>, <<1, 1>>, <<0, 0, 1, 0>>}

\* what the owner of a shape assigns to its pose between queries
MovePositions == {Vector(x, 0) : x \in 0..MaxMove}
MoveRotations == {0, 90}
MoveScales == {1, 2}

\* constructor poses
Rotations == {0, 90, 180, 270}
Scales == {0, 1, 2}
Pose(pos, rot, scale) == [pos |-> pos, rot |-> rot, scale |-> scale]
GridPoses ==
    {Pose(Vector(x, y), r, k) : x \in 0..MaxX, y \in 0..MaxY, r \in Rotations, k \in Scales}
OtherPoses ==
    {Pose(Vector(0, 0), 0, 1), Pose(Vector(1, 1), 0, 1),
     Pose(Vector(1, 1), 90, 2), Pose(Vector(0, 0), 180, 0)}

\* matrices a renderer may have left in the GL context
AmbientMatrices ==
    {Identity,
     << <<1, 0, 0, 1>>, <<0, 1, 0, 0>>, <<0, 0, 1, 0>>, <<0, 0, 0, 1>> >>}

\* vertices and axes handed to project / generate_axes directly
PureVectors == {Vector(x, y) : x \in -1..1, y \in 0..1}
PureAxes == PureVectors \cup {normalize(v) : v \in PureVectors}
PureVerts == UNION {[1..n -> PureVectors] : n \in 0..MaxLen}

\* the value "returned" by an operation that returns nothing, or before any call
NoRet(op) ==
    [op |-> op, self |-> 0, other |-> 0, raised |-> FALSE, value |-> FALSE,
     verts1 |-> <<>>, verts2 |-> <<>>, axes |-> <<>>, proj |-> NoProjection]

NoArgs == [verts |-> <<>>, axis |-> Vector(0, 0)]

-----------------------------------------------------------------------------
(* Operations                                                              *)

\* shape.pos = p, by the owner of the shape
SetPos(i, p) ==
    /\ shapes' = [shapes EXCEPT ![i].pos = p]
    /\ ret' = NoRet("set_pos")
    /\ UNCHANGED <<ctorVerts, gl, args>>

\* shape.rot = r
SetRot(i, r) ==
    /\ shapes' = [shapes EXCEPT ![i].rot = r]
    /\ ret' = NoRet("set_rot")
    /\ UNCHANGED <<ctorVerts, gl, args>>

\* shape.scale = k
SetScale(i, k) ==
    /\ shapes' = [shapes EXCEPT ![i].scale = k]
    /\ ret' = NoRet("set_scale")
    /\ UNCHANGED <<ctorVerts, gl, args>>

CollidesMovesOther(a, b) ==
    \E r \in {collides(gl, shapes[a], shapes[b])} :
        /\ gl' = r.gl
        /\ ret' = [NoRet("collides") EXCEPT !.self = a, !.other = b,
                     !.raised = (r.outcome = "IndexError"),
                     !.value = (r.outcome = "True"),
                     !.verts1 = r.verts1, !.verts2 = r.verts2]
        /\ shapes' = [shapes EXCEPT ![b].pos = r.verts2[2]]
        /\ UNCHANGED <<ctorVerts, args>>

\* shapes[a].collides(shapes[b])
Collides(a, b) ==
    \E r \in {collides(gl, shapes[a], shapes[b])} :
        /\ gl' = r.gl
        /\ ret' = [NoRet("collides") EXCEPT !.self = a, !.other = b,
                     !.raised = (r.outcome = "IndexError"),
                     !.value = (r.outcome = "True"),
                     !.verts1 = r.verts1, !.verts2 = r.verts2]
        /\ UNCHANGED <<shapes, ctorVerts, args>>

\* shapes[a].draw()
Draw(a) ==
    /\ gl' = draw(gl, shapes[a])
    /\ ret' = [NoRet("draw") EXCEPT !.self = a]
    /\ UNCHANGED <<shapes, ctorVerts, args>>

\* project(args.verts, args.axis) called directly
CallProject ==
    \E r \in {project(args.verts, args.axis)} :
        /\ ret' = [NoRet("project") EXCEPT !.raised = r.raised, !.proj = r.proj]
        /\ UNCHANGED <<shapes, ctorVerts, gl, args>>

\* generate_axes(args.verts) called directly
CallGenerateAxes ==
    /\ ret' = [NoRet("generate_axes") EXCEPT !.axes = generate_axes(args.verts)]
    /\ UNCHANGED <<shapes, ctorVerts, gl, args>>

-----------------------------------------------------------------------------
(* Specifications                                                          *)

\* the owner of the shapes moves, turns and scales them between queries
Next ==
    \/ \E i \in ShapeIds, p \in MovePositions : SetPos(i, p)
    \/ \E i \in ShapeIds, r \in MoveRotations : SetRot(i, r)
    \/ \E i \in ShapeIds, k \in MoveScales : SetScale(i, k)
    \/ \E a \in ShapeIds : \E b \in ShapeIds \ {a} : Collides(a, b)
    \/ \E a \in ShapeIds : Draw(a)

\* the shapes are only queried; a shape may also be tested against itself
NextQuery ==
    \/ \E a \in ShapeIds, b \in ShapeIds : Collides(a, b)
    \/ \E a \in ShapeIds : Draw(a)

\* project and generate_axes are called on the drawn arguments
NextPure ==
    \/ CallProject
    \/ CallGenerateAxes

\* Spec: two polygons constructed at the origin, unrotated and unscaled, in a
\* fresh GL context (matrix mode GL_MODELVIEW, which nothing in utils.py changes)
Init ==
    /\ ctorVerts \in [ShapeIds -> Polygons]
    /\ shapes = [i \in ShapeIds |-> Shape(ctorVerts[i], Vector(0, 0), 0, 1)]
    /\ gl = FreshGL
    /\ args = NoArgs
    /\ ret = NoRet("init")

Spec == Init /\ [][Next]_vars

\* SpecPoses: two polygons constructed with poses drawn from a grid
InitPoses ==
    /\ ctorVerts \in [ShapeIds -> Polygons \cup {Diamond}]
    /\ ctorVerts[2] \in Polygons
    /\ \E p1 \in GridPoses, p2 \in OtherPoses :
          shapes = [i \in ShapeIds |->
                      IF i = 1 THEN Shape(ctorVerts[i], p1.pos, p1.rot, p1.scale)
                      ELSE Shape(ctorVerts[i], p2.pos, p2.rot, p2.scale)]
    /\ gl = FreshGL
    /\ args = NoArgs
    /\ ret = NoRet("init")

SpecPoses == InitPoses /\ [][NextQuery]_vars

\* SpecGL: two unit squares in a GL context whose matrix mode and matrices are
\* whatever the caller's rendering code left there
InitGL ==
    /\ ctorVerts = [i \in ShapeIds |-> Square]
    /\ shapes = [i \in ShapeIds |-> Shape(ctorVerts[i], Vector(0, 0), 0, 1)]
    /\ \E mode \in {GL_MODELVIEW, GL_PROJECTION}, mv \in AmbientMatrices,
          pr \in AmbientMatrices : gl = GLState(mode, mv, pr)
    /\ args = NoArgs
    /\ ret = NoRet("init")

SpecGL == InitGL /\ [][Next]_vars

\* SpecDegenerate: the first shape is constructed with fewer than 3 vertices
InitDegenerate ==
    /\ ctorVerts \in [ShapeIds -> Degenerate \cup {Square}]
    /\ ctorVerts[1] \in Degenerate
    /\ shapes = [i \in ShapeIds |-> Shape(ctorVerts[i], Vector(0, 0), 0, 1)]
    /\ gl = FreshGL
    /\ args = NoArgs
    /\ ret = NoRet("init")

SpecDegenerate == InitDegenerate /\ [][Next]_vars

\* SpecPure: the arguments of project and generate_axes drawn from bounded sets
InitPure ==
    /\ ctorVerts = [i \in ShapeIds |-> Square]
    /\ shapes = [i \in ShapeIds |-> Shape(ctorVerts[i], Vector(0, 0), 0, 1)]
    /\ gl = FreshGL
    /\ args \in [verts : PureVerts, axis : PureAxes]
    /\ ret = NoRet("init")

SpecPure == InitPure /\ [][NextPure]_vars

-----------------------------------------------------------------------------
(* Reference geometry, written from the mathematics and not from the code  *)

\* local vertex k of a shape constructed from the flat tuple verts
LocalVertex(verts, k) == Vector(verts[2 * k - 1], verts[2 * k])

\* p + R(r) * (s * v): scale, then rotate by r degrees about Z, then translate
PosePoint(pose, v) ==
    LET sx == pose.scale * v.x
        sy == pose.scale * v.y
    IN  Vector(pose.pos.x + Cos(pose.rot) * sx - Sin(pose.rot) * sy,
               pose.pos.y + Sin(pose.rot) * sx + Cos(pose.rot) * sy)

WorldVertices(verts, pose) ==
    [k \in 1..(Len(verts) \div 2) |-> PosePoint(pose, LocalVertex(verts, k))]

IntDot(a, b) == a.x * b.x + a.y * b.y

\* the edge normals of a polygon, not normalized
EdgeNormals(V) ==
    {Vector(V[i].y - V[(i % Len(V)) + 1].y, V[(i % Len(V)) + 1].x - V[i].x) : i \in 1..Len(V)}

\* the closed intervals covered by V and W on axis n intersect
IntervalsMeet(V, W, n) ==
    /\ \E i \in 1..Len(V), j \in 1..Len(W) : IntDot(n, V[i]) <= IntDot(n, W[j])
    /\ \E i \in 1..Len(V), j \in 1..Len(W) : IntDot(n, W[j]) <= IntDot(n, V[i])

\* no edge normal of either polygon separates them
NoSeparatingAxis(V, W) ==
    \A n \in EdgeNormals(V) \cup EdgeNormals(W) : IntervalsMeet(V, W, n)

\* twice the signed area of the triangle (a, b, c)
Cross(a, b, c) == (b.x - a.x) * (c.y - a.y) - (b.y - a.y) * (c.x - a.x)

\* V is a convex polygon of nonzero area (in either orientation)
ValidConvex(V) ==
    /\ Len(V) >= 3
    /\ \E i \in 1..Len(V), k \in 1..Len(V) : Cross(V[i], V[(i % Len(V)) + 1], V[k]) # 0
    /\ \/ \A i \in 1..Len(V), k \in 1..Len(V) : Cross(V[i], V[(i % Len(V)) + 1], V[k]) >= 0
       \/ \A i \in 1..Len(V), k \in 1..Len(V) : Cross(V[i], V[(i % Len(V)) + 1], V[k]) <= 0

\* the point p lies in the closed region of the convex polygon V
Contains(V, p) ==
    \/ \A i \in 1..Len(V) : Cross(V[i], V[(i % Len(V)) + 1], p) >= 0
    \/ \A i \in 1..Len(V) : Cross(V[i], V[(i % Len(V)) + 1], p) <= 0

Abs(n) == IF n < 0 THEN -n ELSE n

CurrentPose(i) == Pose(shapes[i].pos, shapes[i].rot, shapes[i].scale)

\* a collides call has just returned a boolean
Returned == ret.op = "collides" /\ ~ret.raised

-----------------------------------------------------------------------------
(* Claims                                                                  *)

\* C1: a collides call that returns gives true exactly when the projections
\* of the two world vertex lists overlap on every axis of generate_axes(V1)
\* followed by generate_axes(V2); returning at the first separating axis gives
\* the same boolean as testing all the axes.
C1_CollidesIffAllAxesOverlap ==
    Returned =>
        LET V1 == ret.verts1
            V2 == ret.verts2
            axes == generate_axes(V1) \o generate_axes(V2)
        IN  ret.value = (\A i \in 1..Len(axes) :
                            overlaps(project(V1, axes[i]).proj, project(V2, axes[i]).proj))

\* a call that returned false although no axis of the first shape separates:
\* the separating axis is one of the second shape's
C1_Witness ==
    /\ Returned
    /\ ~ret.value
    /\ LET axes1 == generate_axes(ret.verts1)
       IN  \A i \in 1..Len(axes1) :
               overlaps(project(ret.verts1, axes1[i]).proj,
                        project(ret.verts2, axes1[i]).proj)

\* C2: whatever mutations of pos, rot and scale and whatever earlier calls
\* came before, a collides call returns the separating-axis result of the
\* two shapes' vertices under the poses they have at that call.
C2_ResultFromCurrentPose ==
    Returned =>
        ret.value = NoSeparatingAxis(
                        WorldVertices(ctorVerts[ret.self], CurrentPose(ret.self)),
                        WorldVertices(ctorVerts[ret.other], CurrentPose(ret.other)))

\* a call that returned false: at construction the shapes overlap, so a pose
\* was changed before the call, and the GL matrix was left by an earlier pose
C2_Witness ==
    /\ Returned
    /\ ~ret.value
    /\ shapes[ret.self].pos # Vector(0, 0)
    /\ shapes[ret.other].scale = 2

\* C3: the world vertices a collides call computes are those the same
\* computation yields in a fresh GL context, whatever the matrix mode and the
\* matrices of the context it runs in.
C3_IndependentOfGLState ==
    ret.op = "collides" =>
        /\ ret.verts1 = get_transformed_verts(FreshGL, shapes[ret.self]).verts
        /\ ret.verts2 = get_transformed_verts(FreshGL, shapes[ret.other]).verts

\* C4: world vertex i is p + R(r) * (s * v_i) for local vertex v_i and pose
\* (p, r, s): same count, same order.
C4_WorldVertexFormula ==
    ret.op = "collides" =>
        /\ ret.verts1 = WorldVertices(ctorVerts[ret.self], CurrentPose(ret.self))
        /\ ret.verts2 = WorldVertices(ctorVerts[ret.other], CurrentPose(ret.other))

\* a call on a shape that is translated on both axes, turned by 270 degrees
\* and scaled by 2
C4_Witness ==
    /\ ret.op = "collides"
    /\ CurrentPose(ret.self) = Pose(Vector(3, 2), 270, 2)
    /\ ret.verts1[2] # LocalVertex(ctorVerts[ret.self], 2)

\* C5: every step leaves each shape's stored vertices, their order and their
\* count as the constructor received them, and a collides step leaves both
\* shapes' poses as they were.
C5_VerticesFixed ==
    [][/\ \A i \in ShapeIds :
              /\ shapes'[i].verts = ctorVerts[i]
              /\ shapes'[i].num_verts = Len(ctorVerts[i]) \div 2
              /\ shapes'[i].indices = shapes[i].indices
       /\ ctorVerts' = ctorVerts
       /\ ret'.op = "collides" =>
              \A i \in ShapeIds :
                  /\ shapes'[i].pos = shapes[i].pos
                  /\ shapes'[i].rot = shapes[i].rot
                  /\ shapes'[i].scale = shapes[i].scale]_vars

\* after a collides call between shapes that were moved, turned and scaled
C5_Witness ==
    /\ ret.op = "collides"
    /\ CurrentPose(ret.self) = Pose(Vector(2, 0), 90, 2)
    /\ CurrentPose(ret.other) = Pose(Vector(1, 0), 90, 1)
    /\ \A i \in ShapeIds : shapes[i].verts = ctorVerts[i]

\* both shapes of the last call are unit squares, unrotated and unscaled
UnitSquares ==
    \A i \in {ret.self, ret.other} :
        ctorVerts[i] = Square /\ shapes[i].rot = 0 /\ shapes[i].scale = 1

\* C6: for two unit squares with rotation 0 and scale 1 whose positions differ
\* by (dx, dy), collides returns true iff |dx| <= 1 and |dy| <= 1.
C6_UnitSquaresInclusive ==
    (ret.op = "collides" /\ UnitSquares) =>
        /\ ~ret.raised
        /\ ret.value = (/\ Abs(shapes[ret.self].pos.x - shapes[ret.other].pos.x) <= 1
                        /\ Abs(shapes[ret.self].pos.y - shapes[ret.other].pos.y) <= 1)

\* edge-touching unit squares, one unit apart on the X axis: true
C6_Witness ==
    /\ ret.op = "collides"
    /\ UnitSquares
    /\ shapes[ret.self].pos.x - shapes[ret.other].pos.x = 1
    /\ shapes[ret.self].pos.y = shapes[ret.other].pos.y
    /\ ret.value

\* C7: a collides call in which a shape has fewer than 3 vertices raises
\* instead of returning a boolean.
C7_DegenerateFailsFast ==
    (/\ ret.op = "collides"
     /\ \E i \in {ret.self, ret.other} : Len(ctorVerts[i]) \div 2 < 3) => ret.raised

\* the edge from vertex i to the next one, wrapping to the first
EdgeOf(verts, i) == sub(verts[i], verts[(i % Len(verts)) + 1])

\* C8: generate_axes on n vertices returns n axes in edge order, axis i being
\* (e.y, -e.x) / |e| for e = p[i] - p[(i+1) mod n] (unchanged when e is zero),
\* duplicates kept, and axis i is perpendicular to edge i.
C8_OneAxisPerEdge ==
    ret.op = "generate_axes" =>
        /\ Len(ret.axes) = Len(args.verts)
        /\ \A i \in 1..Len(args.verts) :
               LET e == EdgeOf(args.verts, i)
               IN  /\ ret.axes[i].x = e.y
                   /\ ret.axes[i].y = -e.x
                   /\ ret.axes[i].d = (IF e = Vector(0, 0) THEN 1 ELSE e.x * e.x + e.y * e.y)
                   /\ dot(ret.axes[i], e).n = 0

\* three axes of which two are the same direction, the last from the wrapping edge
C8_Witness ==
    /\ ret.op = "generate_axes"
    /\ Len(ret.axes) = 3
    /\ ret.axes[1] = ret.axes[2]
    /\ ret.axes[3] # ret.axes[1]
    /\ ret.axes[3].d = 4

\* the values dot(axis, v) over the vertices of the last project call
DotValues == {dot(args.axis, args.verts[i]) : i \in 1..Len(args.verts)}

\* C9: on a non-empty vertex sequence project returns the least and the
\* greatest dot(axis, v) over the vertices, so minimum <= maximum.
C9_ProjectMinMax ==
    (ret.op = "project" /\ Len(args.verts) > 0) =>
        /\ ~ret.raised
        /\ ret.proj.minimum \in DotValues
        /\ ret.proj.maximum \in DotValues
        /\ \A p \in DotValues : Leq(ret.proj.minimum, p) /\ Leq(p, ret.proj.maximum)
        /\ Leq(ret.proj.minimum, ret.proj.maximum)

\* the greatest value at the second vertex and the least at the third, on a
\* normalized diagonal axis
C9_Witness ==
    /\ ret.op = "project"
    /\ Len(args.verts) = 3
    /\ args.axis.d = 2
    /\ ret.proj.maximum = dot(args.axis, args.verts[2])
    /\ ret.proj.minimum = dot(args.axis, args.verts[3])
    /\ Lt(ret.proj.minimum, dot(args.axis, args.verts[1]))
    /\ Lt(dot(args.axis, args.verts[1]), ret.proj.maximum)

\* the shape z of the last call has scale 0, as seen against the shape o:
\* Vz the world vertices collides computed for z
ZeroScaleCase(z, o, Vz) ==
    /\ \A k \in 1..Len(Vz) : Vz[k] = shapes[z].pos
    /\ Len(Vz) = Len(ctorVerts[z]) \div 2
    /\ \A axis \in {generate_axes(Vz)[k] : k \in 1..Len(Vz)} : axis = Vector(0, 0)
    /\ LET W == WorldVertices(ctorVerts[o], CurrentPose(o))
       IN  (ValidConvex(W) /\ Contains(W, shapes[z].pos)) => (~ret.raised /\ ret.value)

\* C10: a shape of scale 0 has all its world vertices at its position, every
\* axis generated from it is the zero vector, and collides between it and a
\* valid convex polygon whose region contains that position returns true.
C10_ZeroScale ==
    ret.op = "collides" =>
        /\ shapes[ret.self].scale = 0 => ZeroScaleCase(ret.self, ret.other, ret.verts1)
        /\ shapes[ret.other].scale = 0 => ZeroScaleCase(ret.other, ret.self, ret.verts2)

\* a scale-0 shape away from the origin inside a turned, doubled triangle
C10_Witness ==
    /\ ret.op = "collides"
    /\ shapes[ret.self].scale = 0
    /\ shapes[ret.self].pos = Vector(0, 2)
    /\ ctorVerts[ret.other] = Triangle
    /\ shapes[ret.other].scale = 2
    /\ Contains(WorldVertices(ctorVerts[ret.other], CurrentPose(ret.other)), shapes[ret.self].pos)
    /\ ret.value

====
